---- MODULE Spec2Model ----
(***************************************************************************)
(* The notebook 3.2-automatic-differentiation.ipynb as a state machine.    *)
(*                                                                         *)
(* The state is what a Python kernel holds while the code cells run in     *)
(* order: the variable bindings (env), the tensor objects with their       *)
(* autograd bookkeeping (heap), the position in the cell sequence (pc),    *)
(* the temporaries of the expression under evaluation (tmp), and what was  *)
(* printed (stdout).  count and passes are history: how often each         *)
(* statement ran and on which tensors a reverse pass was started.          *)
(*                                                                         *)
(* Numbers are exact rationals <<numerator, denominator>>.  Every value    *)
(* the notebook's first example computes (1, 3, 9, 27, 1/4, 3/4, 9/2) and  *)
(* every doubling is exact in float32 as well.                             *)
(***************************************************************************)
EXTENDS Integers, Sequences, FiniteSets

VARIABLES pc, env, heap, tmp, stdout, count, passes

vars == <<pc, env, heap, tmp, stdout, count, passes>>

(***************************************************************************)
(* Bounds of the model.                                                    *)
(***************************************************************************)
\* torch.randn draws k/2 for 0 < |k| <= MaxNum; torch.rand draws k/(MaxNum+1)
\* for 0 <= k <= MaxNum.
MaxNum == 1

(***************************************************************************)
(* Rational arithmetic.                                                    *)
(***************************************************************************)
Abs(n) == IF n < 0 THEN -n ELSE n

RECURSIVE GCD(_, _)
GCD(a, b) == IF b = 0 THEN a ELSE GCD(b, a % b)

Rat(n, d) ==
    LET g == GCD(Abs(n), d)
    IN  IF n = 0 THEN <<0, 1>> ELSE <<n \div g, d \div g>>

Zero == Rat(0, 1)
One == Rat(1, 1)

RAdd(p, q) == Rat(p[1] * q[2] + q[1] * p[2], p[2] * q[2])
RMul(p, q) == Rat(p[1] * q[1], p[2] * q[2])
RDivInt(p, n) == Rat(p[1], p[2] * n)
RFloor(p) == p[1] \div p[2]
RLess(p, q) == p[1] * q[2] < q[1] * p[2]

\* The integer part of the square root of a natural number.
RECURSIVE ISqrtBetween(_, _, _)
ISqrtBetween(m, lo, hi) ==
    IF lo = hi THEN lo
    ELSE LET mid == (lo + hi + 1) \div 2
         IN  IF mid * mid <= m THEN ISqrtBetween(m, mid, hi)
                               ELSE ISqrtBetween(m, lo, mid - 1)

\* A power of two above the square root of m.
RECURSIVE PowerAbove(_, _)
PowerAbove(m, r) == IF r * r > m THEN r ELSE PowerAbove(m, 2 * r)

ISqrt(m) == ISqrtBetween(m, 0, PowerAbove(m, 1))

(***************************************************************************)
(* Tensor data: a tensor's elements in row-major order, and its shape.     *)
(***************************************************************************)
RECURSIVE NumEl(_)
NumEl(shape) == IF shape = <<>> THEN 1 ELSE Head(shape) * NumEl(Tail(shape))

Fill(n, v) == [i \in 1..n |-> v]
VAdd(a, b) == [i \in 1..Len(a) |-> RAdd(a[i], b[i])]
VMul(a, b) == [i \in 1..Len(a) |-> RMul(a[i], b[i])]
VScale(a, k) == [i \in 1..Len(a) |-> RMul(a[i], k)]
VAddScalar(a, k) == [i \in 1..Len(a) |-> RAdd(a[i], k)]

RECURSIVE VSum(_)
VSum(a) == IF a = <<>> THEN Zero ELSE RAdd(Head(a), VSum(Tail(a)))

(***************************************************************************)
(* Tensors.  heap[id] is one tensor object together with the node of the   *)
(* recorded graph that produced it:                                        *)
(*   data, shape    the elements and the sizes                             *)
(*   requires_grad  operations on it are recorded                          *)
(*   origin         the call that created the object                       *)
(*   grad_fn        the Function that created it (NoFn is Python's None):  *)
(*                  its name, the ids of its tensor inputs, its scalar     *)
(*                  operand                                                *)
(*   grad           the id of the tensor in the .grad slot, 0 for None     *)
(*   retains_grad   retain_grad() was called on a non-leaf                 *)
(***************************************************************************)
NoFn == [name |-> "None", inputs |-> <<>>, k |-> Zero]

Tensor(data, shape, requires_grad, origin, grad_fn) ==
    [data |-> data, shape |-> shape, requires_grad |-> requires_grad,
     origin |-> origin, grad_fn |-> grad_fn, grad |-> 0, retains_grad |-> FALSE]

IsLeaf(t) == t.grad_fn = NoFn

\* An operation is recorded when one of its tensor inputs requires grad.
Tracks(h, inputs) == \E i \in 1..Len(inputs) : h[inputs[i]].requires_grad

\* An operation that leaves no record.
GradFnUnrecorded(h, name, inputs, k) == NoFn

GradFn(h, name, inputs, k) ==
    IF Tracks(h, inputs) THEN [name |-> name, inputs |-> inputs, k |-> k] ELSE NoFn

Result(h, data, shape, origin, name, inputs, k) ==
    Tensor(data, shape, Tracks(h, inputs), origin, GradFn(h, name, inputs, k))

\* x + k, x * k, a * b, x.mean(), x.sum()
AddScalar(h, a, k) ==
    Result(h, VAddScalar(h[a].data, k), h[a].shape, "add", "AddBackward0", <<a>>, k)

\* x * k recording its own result, not x, as the input of its Function.
MulScalarSelf(h, a, k) ==
    Tensor(VScale(h[a].data, k), h[a].shape, h[a].requires_grad, "mul",
           [name |-> "MulBackward0", inputs |-> <<Len(h) + 1>>, k |-> k])

MulScalar(h, a, k) ==
    Result(h, VScale(h[a].data, k), h[a].shape, "mul", "MulBackward0", <<a>>, k)

MulTensor(h, a, b) ==
    Result(h, VMul(h[a].data, h[b].data), h[a].shape, "mul", "MulBackward0", <<a, b>>, One)

Mean(h, a) ==
    Result(h, <<RDivInt(VSum(h[a].data), Len(h[a].data))>>, <<>>, "mean",
           "MeanBackward0", <<a>>, One)

Sum(h, a) ==
    Result(h, <<VSum(h[a].data)>>, <<>>, "sum", "SumBackward0", <<a>>, One)

\* y.data: the same elements, detached from the recorded graph.
Data(h, a) == Tensor(h[a].data, h[a].shape, FALSE, "data", NoFn)

\* x.norm(): the 2-norm.  The model keeps its integer part, on which alone the
\* comparison with an integer depends.
Norm(h, a) ==
    Result(h, <<Rat(ISqrt(RFloor(VSum(VMul(h[a].data, h[a].data)))), 1)>>, <<>>,
           "norm", "NormBackward1", <<a>>, One)

\* The tensor a reverse pass puts into a .grad slot.
GradTensor(g, shape) == Tensor(g, shape, FALSE, "grad", NoFn)

(***************************************************************************)
(* The reverse pass.                                                       *)
(***************************************************************************)
\* The gradient a Function hands to each of its inputs, given the gradient g
\* of its output.
InputGrads(h, id, g) ==
    LET fn == h[id].grad_fn
        n == Len(h[fn.inputs[1]].data)
    IN  CASE fn.name = "AddBackward0" -> <<g>>
          [] fn.name = "MulBackward0" /\ Len(fn.inputs) = 1 -> <<VScale(g, fn.k)>>
          [] fn.name = "MulBackward0" /\ Len(fn.inputs) = 2 ->
                <<VMul(g, h[fn.inputs[2]].data), VMul(g, h[fn.inputs[1]].data)>>
          [] fn.name = "MeanBackward0" -> <<Fill(n, RDivInt(g[1], n))>>
          [] fn.name = "SumBackward0" -> <<Fill(n, g[1])>>

\* AddToBuffers with a gradient replacing, not joining, the one already there.
RECURSIVE AddToBuffersOverwrite(_, _, _, _)
AddToBuffersOverwrite(h, buf, ins, gs) ==
    IF ins = <<>> THEN buf
    ELSE LET i == Head(ins)
             b == IF ~h[i].requires_grad THEN buf ELSE [buf EXCEPT ![i] = Head(gs)]
         IN  AddToBuffersOverwrite(h, b, Tail(ins), Tail(gs))

\* Add the gradients gs to the buffers of the inputs ins that require grad.
RECURSIVE AddToBuffers(_, _, _, _)
AddToBuffers(h, buf, ins, gs) ==
    IF ins = <<>> THEN buf
    ELSE LET i == Head(ins)
             b == IF ~h[i].requires_grad THEN buf
                  ELSE IF buf[i] = <<>> THEN [buf EXCEPT ![i] = Head(gs)]
                  ELSE [buf EXCEPT ![i] = VAdd(@, Head(gs))]
         IN  AddToBuffers(h, b, Tail(ins), Tail(gs))

\* "The gradient for this tensor will be accumulated into the .grad attribute."
AccumulateGrad(h, id, g) ==
    IF h[id].grad = 0
    THEN Append([h EXCEPT ![id].grad = Len(h) + 1], GradTensor(g, h[id].shape))
    ELSE [h EXCEPT ![h[id].grad].data = VAdd(@, g)]

\* A leaf that requires grad, and a non-leaf on which retain_grad() was called,
\* keep the gradient that reaches them.
StoresGrad(t) == (IsLeaf(t) /\ t.requires_grad) \/ t.retains_grad

\* The nodes are visited from the output back: a tensor's inputs were created
\* before it, so a node is visited after every node that uses it.
RECURSIVE Sweep(_, _, _)
Sweep(h, buf, id) ==
    IF id = 0 THEN h
    ELSE IF buf[id] = <<>> THEN Sweep(h, buf, id - 1)
    ELSE LET h1 == IF StoresGrad(h[id]) THEN AccumulateGrad(h, id, buf[id]) ELSE h
             b1 == IF IsLeaf(h[id]) THEN buf
                   ELSE AddToBuffers(h, buf, h[id].grad_fn.inputs,
                                     InputGrads(h, id, buf[id]))
         IN  Sweep(h1, b1, id - 1)

\* backward()'s gradient argument: <<>> when omitted, <<t>> for the tensor t.
\* "If Tensor is a scalar (i.e. it holds a one element data), you don't need to
\* specify any arguments to backward(), however if it has more elements, you
\* need to specify a gradient argument that is a tensor of matching shape."
BackwardOK(h, root, gradient) ==
    /\ h[root].requires_grad
    /\ IF gradient = <<>> THEN Len(h[root].data) = 1
       ELSE gradient[1].shape = h[root].shape

\* No seed at all for a backward() without argument.
ImplicitSeedZero == <<Zero>>

ImplicitSeed == <<One>>

Seed(gradient) == IF gradient = <<>> THEN ImplicitSeed ELSE gradient[1].data

Backward(h, root, gradient) ==
    Sweep(h, [i \in 1..Len(h) |-> IF i = root THEN Seed(gradient) ELSE <<>>], root)

\* retain_grad() without effect.
RetainGradIgnored(h, id) == h

\* retain_grad(): nothing to do on a leaf, which keeps its gradient anyway.
RetainGrad(h, id) ==
    IF IsLeaf(h[id]) THEN h ELSE [h EXCEPT ![id].retains_grad = TRUE]

(***************************************************************************)
(* The code cells, statement by statement, in the order of the notebook.   *)
(* line is the statement's line in the .ipynb file; dst is the variable    *)
(* assigned, a and b the variables read, k a scalar operand, shape, data   *)
(* and requires_grad the arguments of a constructor, jump the line         *)
(* control goes to (the loop's exit for a while, the loop's head for the   *)
(* last statement of its body; 0: the next statement).                     *)
(* backward's b is its gradient argument ("": omitted).                    *)
(***************************************************************************)
S(line, op, dst, a) ==
    [line |-> line, op |-> op, dst |-> dst, a |-> a, b |-> "", k |-> Zero,
     shape |-> <<>>, data |-> <<>>, requires_grad |-> FALSE, text |-> "", jump |-> 0]

Program == <<
    S(50, "import", "", ""),
    [S(75, "ones", "x", "") EXCEPT !.shape = <<2, 2>>, !.requires_grad = TRUE],
    S(76, "print", "", "x"),
    [S(101, "add_scalar", "y", "x") EXCEPT !.k = Rat(2, 1)],
    S(102, "print", "", "y"),
    S(126, "print_grad_fn", "", "y"),
    [S(152, "mul_mul_scalar", "z", "y") EXCEPT !.b = "y", !.k = Rat(3, 1)],
    S(153, "mean", "out", "z"),
    S(155, "print", "", "z"),
    S(156, "print", "", "out"),
    [S(189, "rand", "x1", "") EXCEPT !.shape = <<5, 5>>, !.requires_grad = TRUE],
    S(190, "print", "", "x1"),
    S(192, "sum", "x2", "x1"),
    S(193, "print", "", "x2"),
    S(211, "backward", "", "out"),
    S(236, "print_grad", "", "x"),
    [S(268, "randn", "x", "") EXCEPT !.shape = <<3>>, !.requires_grad = TRUE],
    [S(270, "mul_scalar", "y", "x") EXCEPT !.k = Rat(2, 1)],
    [S(271, "while_norm_lt", "", "y") EXCEPT !.k = Rat(1000, 1), !.jump = 274],
    [S(272, "mul_scalar", "y", "y") EXCEPT !.k = Rat(2, 1), !.jump = 271],
    S(274, "print", "", "y"),
    [S(291, "float_tensor", "gradients", "") EXCEPT
        !.shape = <<3>>, !.data = <<Rat(1, 10), Rat(1, 1), Rat(1, 10000)>>],
    [S(292, "backward", "", "y") EXCEPT !.b = "gradients"],
    S(294, "print_grad", "", "x"),
    [S(348, "randn", "x1", "") EXCEPT !.shape = <<3>>, !.requires_grad = TRUE],
    S(349, "retain_grad", "", "x1"),
    [S(350, "print", "", "x1") EXCEPT !.text = "Ex1: "],
    [S(352, "mul_scalar", "result", "x1") EXCEPT !.k = Rat(2, 1)],
    S(353, "assign", "x2", "result"),
    S(354, "retain_grad", "", "x2"),
    [S(355, "print", "", "x2") EXCEPT !.text = "Ex2: "],
    S(357, "sum", "x3", "x2"),
    S(358, "retain_grad", "", "x3"),
    [S(359, "print", "", "x3") EXCEPT !.text = "Ex3: "],
    [S(361, "print_text", "", "") EXCEPT !.text = "Ex4:"],
    [S(362, "print_grad", "", "x1") EXCEPT !.text = "grad_ex1="],
    [S(363, "print_grad", "", "x2") EXCEPT !.text = "grad_ex2="],
    [S(364, "print_grad", "", "x3") EXCEPT !.text = "grad_ex3="],
    S(366, "backward", "", "x3"),
    [S(367, "print_text", "", "") EXCEPT !.text = "Ex5: Backward executed"],
    [S(369, "print_text", "", "") EXCEPT !.text = "Ex6:"],
    [S(370, "print_grad", "", "x1") EXCEPT !.text = "grad_ex1="],
    [S(371, "print_grad", "", "x2") EXCEPT !.text = "grad_ex2="],
    [S(372, "print_grad", "", "x3") EXCEPT !.text = "grad_ex3="] >>

Names == {"x", "y", "z", "out", "x1", "x2", "gradients", "result", "x3"}

Stmts == 1..Len(Program)
StmtAt(line) == CHOOSE i \in Stmts : Program[i].line = line

\* pc values besides the statements: the cell sequence has run to its end, or
\* an exception stopped it.
Done == Len(Program) + 1
Raised == 0

\* Succ without the loop's back edge.
SuccNoLoop(p) == p + 1

\* Succ with every backward cell run a second time.
SuccRerunBackward(p) ==
    IF Program[p].op = "backward" /\ count[p] = 0 THEN p
    ELSE IF Program[p].jump = 0 THEN p + 1 ELSE StmtAt(Program[p].jump)

\* Where control goes after a statement that is no loop head.
Succ(p) == IF Program[p].jump = 0 THEN p + 1 ELSE StmtAt(Program[p].jump)

(***************************************************************************)
(* What the random constructors may return.                                *)
(***************************************************************************)
\* torch.randn: normal samples, here the nonzero multiples of 1/2 up to
\* MaxNum/2 (a normal sample is nonzero with probability 1).
RandnVals == {Rat(k, 2) : k \in (-MaxNum..MaxNum) \ {0}}
Randn(n) == [1..n -> RandnVals]

\* torch.rand: uniform samples of [0, 1), here the multiples of 1/(MaxNum+1),
\* laid out cyclically from a chosen first one.
Rand(n) == {[i \in 1..n |-> Rat((k + i) % (MaxNum + 1), MaxNum + 1)] : k \in 0..MaxNum}

(***************************************************************************)
(* What print shows of a tensor, of a .grad slot and of a grad_fn.         *)
(***************************************************************************)
Line(p, text, none, data, requires_grad, grad_fn) ==
    [line |-> Program[p].line, text |-> text, none |-> none, data |-> data,
     requires_grad |-> requires_grad, grad_fn |-> grad_fn]

Repr(p, h, id) ==
    IF id = 0 THEN Line(p, Program[p].text, TRUE, <<>>, FALSE, "None")
    ELSE Line(p, Program[p].text, FALSE, h[id].data, h[id].requires_grad /\ IsLeaf(h[id]),
              h[id].grad_fn.name)

(***************************************************************************)
(* The kernel.                                                             *)
(***************************************************************************)
Init ==
    /\ pc = 1
    /\ env = [n \in Names |-> 0]
    /\ heap = <<>>
    /\ tmp = <<>>
    /\ stdout = <<>>
    /\ count = [p \in Stmts |-> 0]
    /\ passes = <<>>

At(op) == pc \in Stmts /\ Program[pc].op = op

\* The statement at pc has run: control moves on.
Exec ==
    /\ pc' = Succ(pc)
    /\ count' = [count EXCEPT ![pc] = @ + 1]

\* dst = <a new tensor t>
New(t) ==
    /\ heap' = Append(heap, t)
    /\ env' = [env EXCEPT ![Program[pc].dst] = Len(heap) + 1]

Import ==
    /\ At("import")
    /\ Exec
    /\ UNCHANGED <<env, heap, tmp, stdout, passes>>

\* torch.ones(*shape, requires_grad=...)
Ones ==
    /\ At("ones")
    /\ LET st == Program[pc]
       IN  New(Tensor(Fill(NumEl(st.shape), One), st.shape, st.requires_grad, "ones", NoFn))
    /\ Exec
    /\ UNCHANGED <<tmp, stdout, passes>>

\* torch.rand(*shape, requires_grad=...)
RandStmt ==
    /\ At("rand")
    /\ LET st == Program[pc]
       IN  \E data \in Rand(NumEl(st.shape)) :
               New(Tensor(data, st.shape, st.requires_grad, "rand", NoFn))
    /\ Exec
    /\ UNCHANGED <<tmp, stdout, passes>>

\* torch.randn(*shape, requires_grad=...)
RandnStmt ==
    /\ At("randn")
    /\ LET st == Program[pc]
       IN  \E data \in Randn(NumEl(st.shape)) :
               New(Tensor(data, st.shape, st.requires_grad, "randn", NoFn))
    /\ Exec
    /\ UNCHANGED <<tmp, stdout, passes>>

\* torch.FloatTensor([...])
FloatTensor ==
    /\ At("float_tensor")
    /\ LET st == Program[pc]
       IN  New(Tensor(st.data, st.shape, st.requires_grad, "FloatTensor", NoFn))
    /\ Exec
    /\ UNCHANGED <<tmp, stdout, passes>>

\* dst = a + k
AddScalarStmt ==
    /\ At("add_scalar")
    /\ New(AddScalar(heap, env[Program[pc].a], Program[pc].k))
    /\ Exec
    /\ UNCHANGED <<tmp, stdout, passes>>

\* dst = a * k
MulScalarStmt ==
    /\ At("mul_scalar")
    /\ New(MulScalar(heap, env[Program[pc].a], Program[pc].k))
    /\ Exec
    /\ UNCHANGED <<tmp, stdout, passes>>

\* dst = a * b * k: the product a * b is a tensor of its own, which the graph
\* keeps as the input of the product with k.
MulMulScalarStmt ==
    /\ At("mul_mul_scalar")
    /\ LET st == Program[pc]
           h1 == Append(heap, MulTensor(heap, env[st.a], env[st.b]))
       IN  /\ heap' = Append(h1, MulScalar(h1, Len(h1), st.k))
           /\ env' = [env EXCEPT ![st.dst] = Len(h1) + 1]
    /\ Exec
    /\ UNCHANGED <<tmp, stdout, passes>>

\* dst = a.mean()
MeanStmt ==
    /\ At("mean")
    /\ New(Mean(heap, env[Program[pc].a]))
    /\ Exec
    /\ UNCHANGED <<tmp, stdout, passes>>

\* dst = a.sum()
SumStmt ==
    /\ At("sum")
    /\ New(Sum(heap, env[Program[pc].a]))
    /\ Exec
    /\ UNCHANGED <<tmp, stdout, passes>>

\* dst = a: another name for the same tensor.
AssignStmt ==
    /\ At("assign")
    /\ env' = [env EXCEPT ![Program[pc].dst] = env[Program[pc].a]]
    /\ Exec
    /\ UNCHANGED <<heap, tmp, stdout, passes>>

\* a.retain_grad()
RetainGradStmt ==
    /\ At("retain_grad")
    /\ IF heap[env[Program[pc].a]].requires_grad
       THEN /\ heap' = RetainGrad(heap, env[Program[pc].a])
            /\ Exec
       ELSE /\ pc' = Raised
            /\ UNCHANGED <<heap, count>>
    /\ UNCHANGED <<env, tmp, stdout, passes>>

\* The gradient argument of the backward call st.
GradientArgOmitted(st) == <<>>

GradientArg(st) == IF st.b = "" THEN <<>> ELSE <<heap[env[st.b]]>>

\* a.backward() and a.backward(b)
BackwardStmt ==
    /\ At("backward")
    /\ LET st == Program[pc]
           root == env[st.a]
           gradient == GradientArg(st)
       IN  IF BackwardOK(heap, root, gradient)
           THEN /\ heap' = Backward(heap, root, gradient)
                /\ passes' = Append(passes, root)
                /\ Exec
           ELSE /\ pc' = Raised
                /\ UNCHANGED <<heap, passes, count>>
    /\ UNCHANGED <<env, tmp, stdout>>

\* while a.data.norm() < k: the test is evaluated, a.data and its norm being
\* tensors of their own ...
WhileEval ==
    /\ At("while_norm_lt")
    /\ tmp = <<>>
    /\ LET h1 == Append(heap, Data(heap, env[Program[pc].a]))
       IN  /\ heap' = Append(h1, Norm(h1, Len(h1)))
           /\ tmp' = <<Len(h1), Len(h1) + 1>>
    /\ UNCHANGED <<pc, env, stdout, count, passes>>

\* ... and control enters the body or leaves the loop; nothing refers to the
\* two temporaries any more.
WhileBranch ==
    /\ At("while_norm_lt")
    /\ tmp /= <<>>
    /\ pc' = IF RLess(heap[tmp[2]].data[1], Program[pc].k)
             THEN pc + 1
             ELSE StmtAt(Program[pc].jump)
    /\ count' = [count EXCEPT ![pc] = @ + 1]
    /\ heap' = SubSeq(heap, 1, tmp[1] - 1)
    /\ tmp' = <<>>
    /\ UNCHANGED <<env, stdout, passes>>

\* print(a), print(text, a)
PrintStmt ==
    /\ At("print")
    /\ stdout' = Append(stdout, Repr(pc, heap, env[Program[pc].a]))
    /\ Exec
    /\ UNCHANGED <<env, heap, tmp, passes>>

\* print(text, a.grad)
PrintGrad ==
    /\ At("print_grad")
    /\ stdout' = Append(stdout, Repr(pc, heap, heap[env[Program[pc].a]].grad))
    /\ Exec
    /\ UNCHANGED <<env, heap, tmp, passes>>

\* print(a.grad_fn)
PrintGradFn ==
    /\ At("print_grad_fn")
    /\ stdout' = Append(stdout, Line(pc, "grad_fn", IsLeaf(heap[env[Program[pc].a]]), <<>>,
                                     FALSE, heap[env[Program[pc].a]].grad_fn.name))
    /\ Exec
    /\ UNCHANGED <<env, heap, tmp, passes>>

\* print(text)
PrintText ==
    /\ At("print_text")
    /\ stdout' = Append(stdout, Line(pc, Program[pc].text, FALSE, <<>>, FALSE, "None"))
    /\ Exec
    /\ UNCHANGED <<env, heap, tmp, passes>>

Next ==
    \/ Import
    \/ Ones
    \/ RandStmt
    \/ RandnStmt
    \/ FloatTensor
    \/ AddScalarStmt
    \/ MulScalarStmt
    \/ MulMulScalarStmt
    \/ MeanStmt
    \/ SumStmt
    \/ AssignStmt
    \/ RetainGradStmt
    \/ BackwardStmt
    \/ WhileEval
    \/ WhileBranch
    \/ PrintStmt
    \/ PrintGrad
    \/ PrintGradFn
    \/ PrintText

Spec == Init /\ [][Next]_vars

(***************************************************************************)
(* Reading the state.                                                      *)
(***************************************************************************)
Ids == 1..Len(heap)

\* The statement at `line` has run (once or more).
Ran(line) == count[StmtAt(line)] > 0

\* The elements of the tensor in id's .grad slot; <<>> when the slot is None.
GradOf(id) == IF heap[id].grad = 0 THEN <<>> ELSE heap[heap[id].grad].data

\* The tensor x = torch.ones(2, 2, requires_grad=True) of the first example.
FirstX == CHOOSE id \in Ids : heap[id].origin = "ones"

\* What the statement at `line` printed.
Printed(line) == {i \in 1..Len(stdout) : stdout[i].line = line}

(***************************************************************************)
(* C1.  In the first worked example z is 27 in every entry, out is 27,     *)
(* and after out.backward() every one of the four entries of x.grad is     *)
(* 9/2 = 4.5; that is also what the cell at line 236 prints.               *)
(***************************************************************************)
C1_FirstExampleGradient ==
    /\ Ran(153) =>
          /\ heap[env["z"]].data = Fill(4, Rat(27, 1))
          /\ heap[env["out"]].data = <<Rat(27, 1)>>
    /\ Ran(211) =>
          /\ GradOf(FirstX) = Fill(4, Rat(9, 2))
          /\ heap[heap[FirstX].grad].shape = <<2, 2>>
    /\ \A i \in Printed(236) : ~stdout[i].none /\ stdout[i].data = Fill(4, Rat(9, 2))

C1_Witness ==
    /\ Printed(236) /= {}
    /\ env["x"] = FirstX
    /\ GradOf(env["x"]) = <<Rat(9, 2), Rat(9, 2), Rat(9, 2), Rat(9, 2)>>

(***************************************************************************)
(* C2.  No backward call of the cell sequence raises: each meets the       *)
(* precondition of a reverse pass.  out and x3 hold one element and are    *)
(* called without an argument; y holds three and is called with the        *)
(* three-element tensor gradients.                                         *)
(***************************************************************************)
C2_BackwardCallsMeetPrecondition ==
    /\ pc /= Raised
    /\ At("backward") =>
          LET st == Program[pc]
              root == heap[env[st.a]]
          IN  /\ BackwardOK(heap, env[st.a], GradientArg(st))
              /\ st.a \in {"out", "x3"} => st.b = "" /\ Len(root.data) = 1
              /\ st.a = "y" =>
                    /\ st.b = "gradients"
                    /\ Len(root.data) = 3
                    /\ heap[env[st.b]].shape = root.shape
    /\ Len(passes) = Cardinality({p \in Stmts : Program[p].op = "backward" /\ count[p] > 0})

C2_Witness == pc = Done /\ Len(passes) = 3

(***************************************************************************)
(* C7.  In the second assignment the grad of x1, x2 and x3 is None at      *)
(* every point before x3.backward(); after it x1.grad is 2 in each of its  *)
(* three entries, x2.grad is 1 in each of its three entries and x3.grad is *)
(* the scalar 1, whatever torch.randn returned for x1.  The cell prints    *)
(* None three times before, and these three tensors after.                 *)
(***************************************************************************)
C7_SecondAssignmentGradients ==
    /\ ~Ran(366) =>
          \A n \in {"x1", "x2", "x3"} : env[n] /= 0 => heap[env[n]].grad = 0
    /\ Ran(366) =>
          /\ GradOf(env["x1"]) = Fill(3, Rat(2, 1))
          /\ GradOf(env["x2"]) = Fill(3, One)
          /\ GradOf(env["x3"]) = <<One>>
          /\ heap[heap[env["x3"]].grad].shape = <<>>
    /\ \A i \in Printed(362) \cup Printed(363) \cup Printed(364) : stdout[i].none
    /\ \A i \in Printed(370) : stdout[i].data = Fill(3, Rat(2, 1))
    /\ \A i \in Printed(371) : stdout[i].data = Fill(3, One)
    /\ \A i \in Printed(372) : stdout[i].data = <<One>>

C7_Witness ==
    /\ pc = Done
    /\ Printed(364) /= {}
    /\ stdout[Len(stdout)].line = 372
    /\ stdout[Len(stdout)].data = <<One>>
    /\ heap[env["x1"]].data /= heap[env["x"]].data

(***************************************************************************)
(* C3.  As claimed: a tensor's grad_fn is None if and only if the tensor   *)
(* was created directly by the user (torch.ones, torch.rand, torch.randn,  *)
(* torch.FloatTensor).                                                     *)
(***************************************************************************)
UserCreated == {"ones", "rand", "randn", "FloatTensor"}

FnName(origin) ==
    CASE origin = "add" -> "AddBackward0"
      [] origin = "mul" -> "MulBackward0"
      [] origin = "mean" -> "MeanBackward0"
      [] origin = "sum" -> "SumBackward0"
      [] OTHER -> "None"

Inputs(id) == {heap[id].grad_fn.inputs[i] : i \in 1..Len(heap[id].grad_fn.inputs)}

\* The tensors of ids and those reached from them along inputs.
RECURSIVE Upstream(_)
Upstream(ids) ==
    LET more == ids \cup UNION {Inputs(j) : j \in ids}
    IN  IF more = ids THEN ids ELSE Upstream(more)

C4_GraphAcyclic ==
    \A id \in Ids :
        /\ \A j \in Inputs(id) : j \in Ids /\ j < id
        /\ id \notin Upstream(Inputs(id))

C4_Witness ==
    /\ count[StmtAt(272)] >= 2
    /\ env["y"] \in Ids
    /\ Cardinality(Upstream({env["y"]})) >= 4

(***************************************************************************)
(* C5.  For a one-element output such as out, backward() without an        *)
(* argument leaves in the grad slot of every upstream tensor what backward *)
(* with a seed gradient of 1.0 leaves, from the same recorded graph.       *)
(***************************************************************************)
\* The seed gradient 1.0, of the shape of a scalar output.
SeedOne == Tensor(<<One>>, <<>>, FALSE, "tensor", NoFn)

C6_EveryStatementOnce ==
    /\ \A p \in Stmts : count[p] <= 1
    /\ pc = Done => \A p \in Stmts : count[p] = 1

(***************************************************************************)
(* C6, amended.  Apart from the while loop of the cell at lines 268-274,   *)
(* execution is straight-line: every statement outside the loop runs       *)
(* exactly once, in order.  The loop test y.data.norm() < 1000 branches    *)
(* and the body y = y * 2 is repeated for as long as the test holds, so    *)
(* the test runs once more than the body.                                  *)
(***************************************************************************)
LoopHead == StmtAt(271)
LoopBody == StmtAt(272)

C6_StraightLineExceptLoop ==
    /\ pc /= Raised
    /\ \A p \in Stmts \ {LoopHead, LoopBody} : count[p] = IF p < pc THEN 1 ELSE 0
    /\ count[LoopHead] = count[LoopBody] + (IF pc > LoopHead THEN 1 ELSE 0)
    /\ pc < LoopHead => count[LoopHead] = 0
    /\ pc > LoopBody => count[LoopHead] >= 1

C6_Witness ==
    /\ pc = Done
    /\ count[LoopBody] >= 2
    /\ count[LoopHead] = count[LoopBody] + 1

(***************************************************************************)
(* C8.  As claimed: each tensor's grad slot is populated by at most one    *)
(* reverse pass, the 4.5 of the first x is not changed by the later        *)
(* backward calls, and each recorded graph is backpropagated exactly once. *)
(***************************************************************************)
Occurrences(seq, v) == Cardinality({i \in 1..Len(seq) : seq[i] = v})

\* The outputs of the recorded graphs: tensors an operation produced that are
\* the input of no other.
GraphRoots == {id \in Ids : ~IsLeaf(heap[id]) /\ \A j \in Ids : id \notin Inputs(j)}

\* A populated grad slot keeps its tensor, and that tensor its elements.
SlotKept ==
    \A id \in Ids :
        heap[id].grad /= 0 =>
            /\ id <= Len(heap')
            /\ heap'[id].grad = heap[id].grad
            /\ heap'[heap[id].grad] = heap[heap[id].grad]

FirstGradientKept == Ran(211) => GradOf(FirstX) = Fill(4, Rat(9, 2))

C8_EachGraphExactlyOnce ==
    /\ [](FirstGradientKept /\ \A r \in Ids : Occurrences(passes, r) <= 1)
    /\ [](pc = Done => \A r \in GraphRoots : Occurrences(passes, r) = 1)
    /\ [][SlotKept]_vars

(***************************************************************************)
(* C8, amended.  Each tensor's grad slot is populated by at most one       *)
(* reverse pass and each recorded graph is backpropagated at most once:    *)
(* those of out, y and x3 once, that of the first assignment's             *)
(* x2 = x1.sum() never.  x is rebound before y.backward(gradients) and     *)
(* x1, x2 before x3.backward(), so the 4.5 of the first x is neither added *)
(* to nor changed by the later backward calls.                             *)
(***************************************************************************)
\* x2 = x1.sum() of the first assignment.
FirstSum == CHOOSE id \in Ids : heap[id].origin = "sum"

C8_EachGraphAtMostOnce ==
    /\ [](FirstGradientKept /\ \A r \in Ids : Occurrences(passes, r) <= 1)
    /\ [](pc = Done =>
            /\ \A r \in GraphRoots \ {FirstSum} : Occurrences(passes, r) = 1
            /\ Occurrences(passes, FirstSum) = 0
            /\ passes = <<env["out"], env["y"], env["x3"]>>
            /\ FirstX \notin Upstream({env["y"], env["x3"]}))
    /\ [][SlotKept]_vars

C8_Witness ==
    /\ pc = Done
    /\ env["x"] /= FirstX
    /\ GradOf(FirstX) = Fill(4, Rat(9, 2))
    /\ heap[env["x"]].grad /= 0
    /\ FirstSum \in GraphRoots

====
